---- MODULE Spec2Model ----
(***************************************************************************)
(* Model of main.py: the Library catalog (lib_data mirrored to a JSON      *)
(* file) and the menu handlers that drive it.                              *)
(*                                                                         *)
(* Text (a Python str) is a sequence of Unicode code points.  The content  *)
(* of a file is kept at the level of the JSON document, its strings being  *)
(* sequences of bytes: save_data writes them as UTF-8 with errors="ignore" *)
(* and Library.__init__ reads them with the platform's default encoding.   *)
(* A Python dict is a sequence of <<key, value>> pairs with distinct keys, *)
(* in insertion order.                                                     *)
(***************************************************************************)
EXTENDS Integers, Sequences, FiniteSets, TLC

(* ------------------------------ bounds --------------------------------- *)

\* add is offered only while fewer ids than this have been issued
MaxBooks == 2

(* ------------------------------- text ---------------------------------- *)

\* the characters str.strip() treats as white space (those below 256)
IsSpace(c) == c \in {9, 10, 11, 12, 13, 28, 29, 30, 31, 32, 133, 160}

\* the characters int() skips around a number: it does not skip 28..31
IsIntSpace(c) == c \in {9, 10, 11, 12, 13, 32, 133, 160}

RECURSIVE LStrip(_)
LStrip(s) ==
    IF s = <<>> THEN <<>>
    ELSE IF IsSpace(Head(s)) THEN LStrip(Tail(s)) ELSE s

RECURSIVE RStrip(_)
RStrip(s) ==
    IF s = <<>> THEN <<>>
    ELSE IF IsSpace(s[Len(s)]) THEN RStrip(SubSeq(s, 1, Len(s) - 1)) ELSE s

\* str.strip()
Strip(s) == RStrip(LStrip(s))

RECURSIVE IntStrip(_)
IntStrip(s) ==
    IF s = <<>> THEN <<>>
    ELSE IF IsIntSpace(Head(s)) THEN IntStrip(Tail(s))
    ELSE IF IsIntSpace(s[Len(s)]) THEN IntStrip(SubSeq(s, 1, Len(s) - 1))
    ELSE s

\* the letters with a case that the model knows: Latin, Latin-1, Greek, Cyrillic
IsCased(c) ==
    \/ c >= 65 /\ c <= 90
    \/ c >= 97 /\ c <= 122
    \/ c >= 192 /\ c <= 255 /\ c \notin {215, 247}
    \/ c >= 913 /\ c <= 969 /\ c # 930
    \/ c >= 1040 /\ c <= 1103

\* the characters str.lower() looks through around a capital sigma
IsCaseIgnorable(c) ==
    \/ c \in {39, 46, 58, 94, 96, 168, 173, 175, 180, 183, 184}
    \/ c >= 768 /\ c <= 879

\* str.lower() of one character whose lower case does not depend on its place
LowerChar(c) ==
    IF c >= 65 /\ c <= 90 THEN c + 32
    ELSE IF c >= 192 /\ c <= 222 /\ c # 215 THEN c + 32
    ELSE IF c >= 913 /\ c <= 939 /\ c # 930 THEN c + 32
    ELSE IF c >= 1040 /\ c <= 1055 THEN c + 32
    ELSE IF c >= 1056 /\ c <= 1071 THEN c + 32
    ELSE c

\* str.lower() takes the capital sigma at i for a final one when a cased letter
\* stands before it and none after it, case-ignorable characters skipped
FinalSigma(s, i) ==
    /\ \E j \in 1..(i - 1) :
          IsCased(s[j]) /\ \A k \in (j + 1)..(i - 1) : IsCaseIgnorable(s[k])
    /\ ~\E j \in (i + 1)..Len(s) :
          IsCased(s[j]) /\ \A k \in (i + 1)..(j - 1) : IsCaseIgnorable(s[k])

\* str.lower()
Lower(s) ==
    [i \in 1..Len(s) |->
        IF s[i] = 931 THEN (IF FinalSigma(s, i) THEN 962 ELSE 963) ELSE LowerChar(s[i])]

RECURSIVE DigitsOf(_)
DigitsOf(n) == IF n < 10 THEN <<48 + n>> ELSE DigitsOf(n \div 10) \o <<48 + (n % 10)>>

\* str(n) of an int
Str(n) == IF n < 0 THEN <<45>> \o DigitsOf(0 - n) ELSE DigitsOf(n)

IsDigit(c) == c >= 48 /\ c <= 57

RECURSIVE DigitsVal(_, _)
DigitsVal(s, acc) ==
    IF s = <<>> THEN acc
    ELSE IF Head(s) = 95 THEN DigitsVal(Tail(s), acc)
    ELSE DigitsVal(Tail(s), 10 * acc + (Head(s) - 48))

\* the literal int() accepts after the sign: digits, single underscores between digits
IsIntBody(b) ==
    /\ Len(b) > 0
    /\ \A i \in 1..Len(b) : IsDigit(b[i]) \/ b[i] = 95
    /\ IsDigit(b[1]) /\ IsDigit(b[Len(b)])
    /\ \A i \in 1..(Len(b) - 1) : ~(b[i] = 95 /\ b[i + 1] = 95)

\* int(s): [ok |-> TRUE, val |-> n], or ok = FALSE where Python raises ValueError
IntParse(s) ==
    LET t == IntStrip(s)
        signed == t # <<>> /\ Head(t) \in {43, 45}
        body == IF signed THEN Tail(t) ELSE t
    IN  IF IsIntBody(body)
        THEN [ok |-> TRUE,
              val |-> IF signed /\ Head(t) = 45 THEN 0 - DigitsVal(body, 0)
                      ELSE DigitsVal(body, 0)]
        ELSE [ok |-> FALSE, val |-> 0]

(* ------------------------------ codecs --------------------------------- *)

IsSurrogate(c) == c >= 55296 /\ c <= 57343

\* one character written through open(..., encoding="utf-8", errors="ignore"):
\* a lone surrogate cannot be encoded and is dropped
Utf8EncodeChar(c) ==
    IF c < 128 THEN <<c>>
    ELSE IF c < 2048 THEN <<192 + (c \div 64), 128 + (c % 64)>>
    ELSE IF IsSurrogate(c) THEN <<>>
    ELSE <<224 + (c \div 4096), 128 + ((c \div 64) % 64), 128 + (c % 64)>>

\* text written through that file object (ASCII text is its own encoding)
RECURSIVE Utf8Encode(_)
Utf8Encode(s) ==
    IF \A i \in 1..Len(s) : s[i] < 128 THEN s
    ELSE Utf8EncodeChar(Head(s)) \o Utf8Encode(Tail(s))

\* the failed result of a decoder (UnicodeDecodeError)
DecodeError == [ok |-> FALSE, text |-> <<>>]

IsCont(b) == b >= 128 /\ b <= 191

\* strict UTF-8 decoding of a sequence of bytes (up to three-byte forms)
RECURSIVE Utf8Decode(_)
Utf8Decode(bs) ==
    IF \A i \in 1..Len(bs) : bs[i] < 128 THEN [ok |-> TRUE, text |-> bs]
    ELSE LET b == Head(bs)
             n == IF b < 128 THEN 1
                  ELSE IF b >= 194 /\ b <= 223 THEN 2
                  ELSE IF b >= 224 /\ b <= 239 THEN 3
                  ELSE 0
         IN  IF n = 0 \/ Len(bs) < n THEN DecodeError
             ELSE IF \E i \in 2..n : ~IsCont(bs[i]) THEN DecodeError
             ELSE LET c == IF n = 1 THEN b
                           ELSE IF n = 2 THEN (b - 192) * 64 + (bs[2] - 128)
                           ELSE (b - 224) * 4096 + (bs[2] - 128) * 64 + (bs[3] - 128)
                      rest == Utf8Decode(SubSeq(bs, n + 1, Len(bs)))
                  IN  IF (n = 3 /\ (c < 2048 \/ IsSurrogate(c))) \/ ~rest.ok
                      THEN DecodeError
                      ELSE [ok |-> TRUE, text |-> <<c>> \o rest.text]

\* the bytes cp1252 leaves undefined
Cp1252Undefined == {129, 141, 143, 144, 157}

\* cp1252: bytes 128..159 map to these characters, every other byte to itself
Cp1252High ==
    [b \in (128..159) \ Cp1252Undefined |->
        CASE b = 128 -> 8364 [] b = 130 -> 8218 [] b = 131 -> 402  [] b = 132 -> 8222
          [] b = 133 -> 8230 [] b = 134 -> 8224 [] b = 135 -> 8225 [] b = 136 -> 710
          [] b = 137 -> 8240 [] b = 138 -> 352  [] b = 139 -> 8249 [] b = 140 -> 338
          [] b = 142 -> 381  [] b = 145 -> 8216 [] b = 146 -> 8217 [] b = 147 -> 8220
          [] b = 148 -> 8221 [] b = 149 -> 8226 [] b = 150 -> 8211 [] b = 151 -> 8212
          [] b = 152 -> 732  [] b = 153 -> 8482 [] b = 154 -> 353  [] b = 155 -> 8250
          [] b = 156 -> 339  [] b = 158 -> 382  [] b = 159 -> 376]

Cp1252Decode(bs) ==
    IF \E i \in 1..Len(bs) : bs[i] \in Cp1252Undefined THEN DecodeError
    ELSE [ok |-> TRUE,
          text |-> [i \in 1..Len(bs) |->
                      IF bs[i] >= 128 /\ bs[i] <= 159 THEN Cp1252High[bs[i]] ELSE bs[i]]]

\* the platform encodings open() may default to when no encoding is given
Encodings == {"utf-8", "cp1252"}

\* reading bytes through a file opened with encoding enc
Decode(bs, enc) == IF enc = "utf-8" THEN Utf8Decode(bs) ELSE Cp1252Decode(bs)

(* ------------------------------- dicts --------------------------------- *)

DictKeys(d) == {d[i][1] : i \in 1..Len(d)}

\* k in d
DictHas(d, k) == k \in DictKeys(d)

\* d[k], for a key that is present
DictGet(d, k) == d[CHOOSE i \in 1..Len(d) : d[i][1] = k][2]

\* d[k] = v: a present key keeps its position, a new key goes last
DictSet(d, k, v) ==
    IF DictHas(d, k)
    THEN [i \in 1..Len(d) |-> IF d[i][1] = k THEN <<k, v>> ELSE d[i]]
    ELSE Append(d, <<k, v>>)

\* del d[k]
DictDel(d, k) == SelectSeq(d, LAMBDA p : p[1] # k)

\* the dict json.load builds from the members of an object: a repeated key keeps
\* its first position and its last value
RECURSIVE FromPairs(_)
FromPairs(ps) ==
    IF ps = <<>> THEN <<>>
    ELSE LET p == ps[Len(ps)]
         IN  DictSet(FromPairs(SubSeq(ps, 1, Len(ps) - 1)), p[1], p[2])

InList(l, x) == \E i \in 1..Len(l) : l[i] = x

\* list.remove(x) for an x that is in the list: the first occurrence goes
ListRemove(l, x) ==
    LET i == CHOOSE j \in 1..Len(l) : l[j] = x /\ \A m \in 1..(j - 1) : l[m] # x
    IN  SubSeq(l, 1, i - 1) \o SubSeq(l, i + 1, Len(l))

(* ------------------------------ Library -------------------------------- *)

\* "Available"
Available == <<65, 118, 97, 105, 108, 97, 98, 108, 101>>

\* the checked-out status of change_status; its first letter is U+0421
CheckedOut == <<1057, 104, 101, 99, 107, 101, 100, 32, 111, 117, 116>>

\* Book(title, author, year, id, status)
Book(title, author, year, id, status) ==
    [id |-> id, title |-> title, author |-> author, year |-> year, status |-> status]

\* start_data of Library.__init__
StartData == [current_id |-> 0, books |-> <<>>, years |-> <<>>, authors |-> <<>>]

\* the document json.dump writes for lib_data through save_data's file object
\* (the keys lib_data has are the keys written: a lib_data loaded without
\* "current_id" is written without it)
Dump(d) ==
    LET books == [i \in 1..Len(d.books) |->
                    <<Utf8Encode(d.books[i][1]),
                      [title  |-> Utf8Encode(d.books[i][2].title),
                       author |-> Utf8Encode(d.books[i][2].author),
                       year   |-> Utf8Encode(d.books[i][2].year),
                       status |-> Utf8Encode(d.books[i][2].status)]>>]
        years == [i \in 1..Len(d.years) |-> <<Utf8Encode(d.years[i][1]), d.years[i][2]>>]
        authors == [i \in 1..Len(d.authors) |->
                      <<Utf8Encode(d.authors[i][1]), d.authors[i][2]>>]
    IN  IF "current_id" \in DOMAIN d
        THEN [current_id |-> d.current_id, books |-> books,
              years |-> years, authors |-> authors]
        ELSE [books |-> books, years |-> years, authors |-> authors]

\* every string of the document can be read with encoding enc
Readable(doc, enc) ==
    /\ \A i \in 1..Len(doc.books) :
          /\ Decode(doc.books[i][1], enc).ok
          /\ Decode(doc.books[i][2].title, enc).ok
          /\ Decode(doc.books[i][2].author, enc).ok
          /\ Decode(doc.books[i][2].year, enc).ok
          /\ Decode(doc.books[i][2].status, enc).ok
    /\ \A i \in 1..Len(doc.years) : Decode(doc.years[i][1], enc).ok
    /\ \A i \in 1..Len(doc.authors) : Decode(doc.authors[i][1], enc).ok

\* json.load of a readable document
Load(doc, enc) ==
    LET books == FromPairs([i \in 1..Len(doc.books) |->
                    <<Decode(doc.books[i][1], enc).text,
                      [title  |-> Decode(doc.books[i][2].title, enc).text,
                       author |-> Decode(doc.books[i][2].author, enc).text,
                       year   |-> Decode(doc.books[i][2].year, enc).text,
                       status |-> Decode(doc.books[i][2].status, enc).text]>>])
        years == FromPairs([i \in 1..Len(doc.years) |->
                    <<Decode(doc.years[i][1], enc).text, doc.years[i][2]>>])
        authors == FromPairs([i \in 1..Len(doc.authors) |->
                      <<Decode(doc.authors[i][1], enc).text, doc.authors[i][2]>>])
    IN  IF "current_id" \in DOMAIN doc
        THEN [current_id |-> doc.current_id, books |-> books,
              years |-> years, authors |-> authors]
        ELSE [books |-> books, years |-> years, authors |-> authors]

\* no file of that name
NoFile == [nofile |-> TRUE]

\* a file of size 0
EmptyFile == [empty |-> TRUE]

\* a file whose text is no JSON value, such as the start of a document
Garbage == [garbage |-> TRUE]

\* the document {"books": {}, "years": {}, "authors": {}}: JSON, without "current_id"
NoCounter == [books |-> <<>>, years |-> <<>>, authors |-> <<>>]

\* no Library object (no process is running)
NoLib == [nolib |-> TRUE]

\* Library.__init__ on the file content f with default encoding enc: the file
\* afterwards, and the loaded lib_data unless json.load raises (whatever JSON
\* object the file holds is taken as lib_data)
LibraryInit(f, enc) ==
    LET f1 == IF f = NoFile \/ f = EmptyFile THEN Dump(StartData) ELSE f
    IN  IF f1 = Garbage
        THEN [ok |-> FALSE, exc |-> "JSONDecodeError", file |-> f1, data |-> NoLib]
        ELSE IF Readable(f1, enc)
        THEN [ok |-> TRUE, exc |-> "", file |-> f1, data |-> Load(f1, enc)]
        ELSE [ok |-> FALSE, exc |-> "UnicodeDecodeError", file |-> f1, data |-> NoLib]

\* Library.save_data: the file content afterwards
SaveData(d) == Dump(d)

\* add_book taking the number of books for the id counter
AddBook_count(d, title, author, year) ==
    LET id == Len(d.books) + 1
        rec == [title |-> title, author |-> author, year |-> year, status |-> Available]
        put(index, key) == IF DictHas(index, key)
                           THEN DictSet(index, key, Append(DictGet(index, key), id))
                           ELSE DictSet(index, key, <<id>>)
    IN  [ok |-> TRUE, exc |-> "",
         data |-> [current_id |-> id, books |-> DictSet(d.books, Str(id), rec),
                   years |-> put(d.years, year), authors |-> put(d.authors, author)],
         book |-> Book(title, author, year, id, Available)]

\* add_book replacing the author's list instead of appending to it
AddBook_overwrite(d, title, author, year) ==
    LET id == d.current_id + 1
        rec == [title |-> title, author |-> author, year |-> year, status |-> Available]
    IN  [ok |-> TRUE, exc |-> "",
         data |-> [current_id |-> id, books |-> DictSet(d.books, Str(id), rec),
                   years |-> IF DictHas(d.years, year)
                             THEN DictSet(d.years, year, Append(DictGet(d.years, year), id))
                             ELSE DictSet(d.years, year, <<id>>),
                   authors |-> DictSet(d.authors, author, <<id>>)],
         book |-> Book(title, author, year, id, Available)]

\* add_book without the update of current_id
AddBook_stale(d, title, author, year) ==
    LET id == d.current_id + 1
        rec == [title |-> title, author |-> author, year |-> year, status |-> Available]
        put(index, key) == IF DictHas(index, key)
                           THEN DictSet(index, key, Append(DictGet(index, key), id))
                           ELSE DictSet(index, key, <<id>>)
    IN  [ok |-> TRUE, exc |-> "",
         data |-> [current_id |-> d.current_id, books |-> DictSet(d.books, Str(id), rec),
                   years |-> put(d.years, year), authors |-> put(d.authors, author)],
         book |-> Book(title, author, year, id, Available)]

\* add_book putting the new id first in the lists
AddBook_prepend(d, title, author, year) ==
    LET id == d.current_id + 1
        rec == [title |-> title, author |-> author, year |-> year, status |-> Available]
        put(index, key) == IF DictHas(index, key)
                           THEN DictSet(index, key, <<id>> \o DictGet(index, key))
                           ELSE DictSet(index, key, <<id>>)
    IN  [ok |-> TRUE, exc |-> "",
         data |-> [current_id |-> id, books |-> DictSet(d.books, Str(id), rec),
                   years |-> put(d.years, year), authors |-> put(d.authors, author)],
         book |-> Book(title, author, year, id, Available)]

\* Library.add_book up to save_data: the new lib_data and the Book returned;
\* KeyError at its first line when lib_data has no "current_id"
AddBook(d, title, author, year) ==
    IF "current_id" \notin DOMAIN d
    THEN [ok |-> FALSE, exc |-> "KeyError", data |-> d,
          book |-> Book(title, author, year, 0, Available)]
    ELSE
    LET new_book == Book(title, author, year, d.current_id + 1, Available)
        books1 == DictSet(d.books, Str(new_book.id),
                          [title |-> new_book.title, author |-> new_book.author,
                           year |-> new_book.year, status |-> new_book.status])
        years1 == IF DictHas(d.years, new_book.year)
                  THEN DictSet(d.years, new_book.year,
                               Append(DictGet(d.years, new_book.year), new_book.id))
                  ELSE DictSet(d.years, new_book.year, <<new_book.id>>)
        authors1 == IF DictHas(d.authors, new_book.author)
                    THEN DictSet(d.authors, new_book.author,
                                 Append(DictGet(d.authors, new_book.author), new_book.id))
                    ELSE DictSet(d.authors, new_book.author, <<new_book.id>>)
    IN  [ok |-> TRUE, exc |-> "",
         data |-> [current_id |-> new_book.id, books |-> books1,
                   years |-> years1, authors |-> authors1],
         book |-> new_book]

\* delete_book without the pruning of an emptied list
IndexRemove_keep(index, key, id) ==
    IF ~DictHas(index, key) THEN [ok |-> FALSE, exc |-> "KeyError", index |-> index]
    ELSE IF ~InList(DictGet(index, key), id)
    THEN [ok |-> FALSE, exc |-> "ValueError", index |-> index]
    ELSE [ok |-> TRUE, exc |-> "",
          index |-> DictSet(index, key, ListRemove(DictGet(index, key), id))]

\* one index of delete_book: the id leaves the list of its key, an emptied list
\* leaves the index; KeyError / ValueError when the key or the id is not there
IndexRemove(index, key, id) ==
    IF ~DictHas(index, key) THEN [ok |-> FALSE, exc |-> "KeyError", index |-> index]
    ELSE IF ~InList(DictGet(index, key), id)
    THEN [ok |-> FALSE, exc |-> "ValueError", index |-> index]
    ELSE LET l == ListRemove(DictGet(index, key), id)
         IN  [ok |-> TRUE, exc |-> "",
              index |-> IF l = <<>> THEN DictDel(index, key) ELSE DictSet(index, key, l)]

\* delete_book that leaves the author index alone
DeleteBook_books(d, book) ==
    IF ~DictHas(d.books, Str(book.id)) THEN [ok |-> FALSE, exc |-> "KeyError", data |-> d]
    ELSE LET ys == IndexRemove(d.years, book.year, book.id)
         IN  IF ~ys.ok THEN [ok |-> FALSE, exc |-> ys.exc, data |-> d]
             ELSE [ok |-> TRUE, exc |-> "",
                   data |-> [d EXCEPT !.books = DictDel(d.books, Str(book.id)),
                                      !.years = ys.index]]

\* delete_book that sets current_id to the number of books left
DeleteBook_counter(d, book) ==
    IF ~DictHas(d.books, Str(book.id)) THEN [ok |-> FALSE, exc |-> "KeyError", data |-> d]
    ELSE LET ys == IndexRemove(d.years, book.year, book.id)
             as == IndexRemove(d.authors, book.author, book.id)
         IN  IF ~ys.ok THEN [ok |-> FALSE, exc |-> ys.exc, data |-> d]
             ELSE IF ~as.ok THEN [ok |-> FALSE, exc |-> as.exc, data |-> d]
             ELSE [ok |-> TRUE, exc |-> "",
                   data |-> [d EXCEPT !.books = DictDel(d.books, Str(book.id)),
                                      !.years = ys.index, !.authors = as.index,
                                      !.current_id = Len(d.books) - 1]]

\* Library.delete_book up to save_data
DeleteBook(d, book) ==
    IF ~DictHas(d.books, Str(book.id)) THEN [ok |-> FALSE, exc |-> "KeyError", data |-> d]
    ELSE LET ys == IndexRemove(d.years, book.year, book.id)
             as == IndexRemove(d.authors, book.author, book.id)
         IN  IF ~ys.ok THEN [ok |-> FALSE, exc |-> ys.exc, data |-> d]
             ELSE IF ~as.ok THEN [ok |-> FALSE, exc |-> as.exc, data |-> d]
             ELSE [ok |-> TRUE, exc |-> "",
                   data |-> [d EXCEPT !.books = DictDel(d.books, Str(book.id)),
                                      !.years = ys.index, !.authors = as.index]]

\* Library.get_all_books
GetAllBooks(d) == d.books

\* the value dict.get returns for a missing key
None == [none |-> TRUE]

\* search_by_id with an empty record as the default of dict.get
SearchById_blank(d, id) ==
    IF DictHas(d.books, id) THEN DictGet(d.books, id)
    ELSE [title |-> <<>>, author |-> <<>>, year |-> <<>>, status |-> <<>>]

\* Library.search_by_id
SearchById(d, id) == IF DictHas(d.books, id) THEN DictGet(d.books, id) ELSE None

\* Library.search_by_author_or_year: the dict from id to record, in list order
SearchByAuthorOrYear(d, value, criteria) ==
    LET index == IF criteria = "year" THEN d.years
                 ELSE IF criteria = "author" THEN d.authors ELSE <<>>
        found_books == IF DictHas(index, value) THEN DictGet(index, value) ELSE <<>>
    IN  FromPairs([i \in 1..Len(found_books) |->
                     <<found_books[i], DictGet(d.books, Str(found_books[i]))>>])

\* Library.search_by_title
SearchByTitle(d, title) ==
    SelectSeq(d.books, LAMBDA p : Lower(p[2].title) = Lower(title))

\* Library.change_book_status up to save_data
ChangeBookStatus(d, book, new_status) ==
    [d EXCEPT !.books = DictSet(d.books, Str(book.id),
                                [DictGet(d.books, Str(book.id)) EXCEPT !.status = new_status])]

(* ------------------------------- state --------------------------------- *)

VARIABLES
    locale,     \* the encoding open() uses when none is given (fixed by the platform)
    other_libs, \* the names of the other .json files in the directory
    file,       \* content of the library's .json file, or NoFile
    lib_data,   \* Library.lib_data of the running process, or NoLib
    pc,         \* "off": no process is running; "menu": main's loop;
                \* "elsewhere": main's loop on another library
    out,        \* what the last handler printed, by kind: "started", "closed",
                \* "added", "deleted", "changed" (the operation is reported done),
                \* "rejected" (an input is refused), "not found", "cancelled",
                \* "listed" (a list of books or its absence is shown), or the name of an
                \* uncaught exception
    issued,     \* history: the ids returned by add_book so far, in order
    deleted     \* history: the ids whose delete_book completed

vars == <<locale, other_libs, file, lib_data, pc, out, issued, deleted>>

\* datetime.datetime.now().year in add
CurrentYear == 2026

\* the name of the library the model follows ("lib"), and another name
LibName == <<108, 105, 98>>
OtherName == <<122>>

\* a prompt that was not reached has no line
NoLine == <<>>

(* lines typed at the prompts.  56448 is a lone surrogate (U+DC80), what    *)
(* input() gives for a byte that stdin cannot decode                        *)
LineD == <<68, 32>>             \* "D "
LineH == <<72>>                 \* "H"
LineSH == <<56448, 72>>         \* "\udc80H"
LineS == <<56448>>              \* "\udc80"
Line868 == <<56, 54, 56>>       \* "868"
LineNow == Str(CurrentYear)
LineX == <<120>>                \* "x"
LineAS == <<913, 931>>          \* two Greek capitals, alpha and sigma

\* the three lines typed in add: books that are accepted ...
BookInputs ==
    {<<LineD, LineH, Line868>>, <<LineD, LineSH, Line868>>, <<LineD, LineS, LineNow>>}

\* ... and entries that are refused at the title, the author or the year
BadBookInputs ==
    {<<<<32>>, NoLine, NoLine>>, <<LineD, <<>>, NoLine>>,
     <<LineD, LineH, <<97, 98>>>>, <<LineD, LineH, Str(867)>>,
     <<LineD, LineH, Str(CurrentYear + 1)>>, <<LineD, LineSH, <<45, 56, 54, 56>>>>}

IdInputs == {Str(i) : i \in 1..(MaxBooks + 1)} \cup {LineX}
OptionInputs == {Str(1), Str(2), Str(3), LineX}
MenuInputs == {Str(6), Str(7), LineX}
NameInputs == {LibName, OtherName}
SearchInputs == {<<100>>, LineH, Line868}

Init ==
    /\ locale \in Encodings
    /\ other_libs = {}
    /\ file = NoFile
    /\ lib_data = NoLib
    /\ pc = "off"
    /\ out = ""
    /\ issued = <<>>
    /\ deleted = {}

\* check_input(start_value) on the line typed
CheckInput(start_value, line) ==
    IF IntParse(line).ok THEN IntParse(line).val ELSE start_value

\* an uncaught exception: the traceback is printed and the process ends
Abort(exc) ==
    /\ pc' = "off"
    /\ lib_data' = NoLib
    /\ out' = exc

\* a handler returns having printed m and changed nothing else
Back(m) ==
    /\ out' = m
    /\ UNCHANGED <<locale, other_libs, file, lib_data, pc, issued, deleted>>

(* ------------------------------- main ----------------------------------- *)

\* get_libraries: the names of the .json files in the directory
GetLibraries(f) == (IF f = NoFile THEN {} ELSE {LibName}) \cup other_libs

\* check_availability that finds every name
CheckAvailability_any(my_libraries, lib_name) == my_libraries = my_libraries

\* check_availability
CheckAvailability(my_libraries, lib_name) == \E lib \in my_libraries : lib = lib_name

\* main up to the Library call: the name to open, or <<>> when the app closes
MainChoice(answer, newLib, name, f) ==
    LET lib_decision == CheckInput(0, answer)
        my_libraries == GetLibraries(f)
    IN  IF lib_decision = 1
        THEN IF my_libraries = {}
             THEN IF CheckInput(1, newLib) = 1 THEN <<>> ELSE Strip(name)
             ELSE IF CheckAvailability(my_libraries, Strip(name)) THEN Strip(name) ELSE <<>>
        ELSE IF lib_decision = 2 THEN Strip(name)
        ELSE <<>>

\* main asks for the name of a new library (lib_decision is 2 when that
\* prompt is reached)
MainCreates(answer, newLib) ==
    \/ CheckInput(0, answer) = 2
    \/ CheckInput(0, answer) = 1 /\ GetLibraries(file) = {} /\ CheckInput(1, newLib) # 1

\* the lines main reads: newLib at "Create new?", name at one of the two name
\* prompts; the name of a new library is asked again until it is not empty,
\* and name is the line that ended that loop
MainReads(answer, newLib, name) ==
    /\ (CheckInput(0, answer) = 1 /\ GetLibraries(file) = {}) \/ newLib = NoLine
    /\ \/ MainCreates(answer, newLib)
       \/ CheckInput(0, answer) = 1 /\ GetLibraries(file) # {}
       \/ name = NoLine
    /\ MainCreates(answer, newLib) => Strip(name) # <<>>

\* main from its start to the first menu: a process starts, the library is
\* chosen and opened (the library is LibName's, or none is opened)
Main(answer, newLib, name) ==
    /\ pc = "off"
    /\ MainReads(answer, newLib, name)
    /\ LET lib_name == MainChoice(answer, newLib, name, file)
       IN  IF lib_name = <<>>
           THEN Back("closed")
           ELSE /\ lib_name = LibName
                /\ LET r == LibraryInit(file, locale)
                   IN  /\ file' = r.file
                       /\ IF r.ok
                          THEN /\ lib_data' = r.data
                               /\ pc' = "menu"
                               /\ out' = "started"
                          ELSE Abort(r.exc)
                /\ UNCHANGED <<locale, other_libs, issued, deleted>>

\* main from its start to the first menu when the library opened has another
\* name: Library.__init__ makes that file if it is not there
MainOther(answer, newLib, name) ==
    /\ pc = "off"
    /\ MainReads(answer, newLib, name)
    /\ LET lib_name == MainChoice(answer, newLib, name, file)
       IN  /\ lib_name # <<>>
           /\ lib_name # LibName
           /\ other_libs' = other_libs \cup {lib_name}
           /\ pc' = "elsewhere"
           /\ out' = "started"
           /\ UNCHANGED <<locale, file, lib_data, issued, deleted>>

\* the process that opened another library works on it until it ends: every
\* write of it is save_data on its own lib_name
Elsewhere ==
    /\ pc = "elsewhere"
    /\ pc' = "off"
    /\ out' = "closed"
    /\ UNCHANGED <<locale, other_libs, file, lib_data, issued, deleted>>

\* main's loop on a choice that is no operation: 0 or no number asks again,
\* 6 and every other number end the process
MenuOther(line) ==
    /\ pc = "menu"
    /\ LET current_choice == CheckInput(0, line)
       IN  /\ current_choice \notin 1..5
           /\ IF current_choice = 0
              THEN Back("rejected")
              ELSE /\ pc' = "off"
                   /\ lib_data' = NoLib
                   /\ out' = "closed"
                   /\ UNCHANGED <<locale, other_libs, file, issued, deleted>>

(* ------------------------------ handlers -------------------------------- *)

\* add(lib), choice 1
Add(titleLine, authorLine, yearLine) ==
    /\ pc = "menu"
    /\ Strip(titleLine) # <<>> \/ authorLine = NoLine
    /\ (Strip(titleLine) # <<>> /\ Strip(authorLine) # <<>>) \/ yearLine = NoLine
    /\ LET title == Strip(titleLine)
           author == Strip(authorLine)
           year == Strip(yearLine)
           int_year == IntParse(year)
       IN  IF title = <<>> THEN Back("rejected")
           ELSE IF author = <<>> THEN Back("rejected")
           ELSE IF ~int_year.ok THEN Back("rejected")
           ELSE IF int_year.val < 868 \/ int_year.val > CurrentYear
           THEN Back("rejected")
           ELSE /\ Len(issued) < MaxBooks
                /\ LET r == AddBook(lib_data, title, author, year)
                   IN  IF r.ok
                       THEN /\ lib_data' = r.data
                            /\ file' = SaveData(r.data)
                            /\ out' = "added"
                            /\ issued' = Append(issued, r.book.id)
                            /\ UNCHANGED <<locale, other_libs, pc, deleted>>
                       ELSE /\ Abort(r.exc)
                            /\ UNCHANGED <<locale, other_libs, file, issued, deleted>>

\* delete(lib), choice 2
Delete(idLine, optionLine) ==
    /\ pc = "menu"
    /\ LET id == IntParse(Strip(idLine))
           found == SearchById(lib_data, Str(id.val))
       IN  IF ~id.ok THEN optionLine = NoLine /\ Back("rejected")
           ELSE IF found = None THEN optionLine = NoLine /\ Back("not found")
           ELSE LET book == Book(found.title, found.author, found.year, id.val, found.status)
                    dec == CheckInput(0, optionLine)
                IN  IF dec = 0 THEN Back("rejected")
                    ELSE IF dec = 2 THEN Back("cancelled")
                    ELSE IF dec # 1 THEN Back("cancelled")
                    ELSE LET r == DeleteBook(lib_data, book)
                         IN  IF r.ok
                             THEN /\ lib_data' = r.data
                                  /\ file' = SaveData(r.data)
                                  /\ out' = "deleted"
                                  /\ deleted' = deleted \cup {id.val}
                                  /\ UNCHANGED <<locale, other_libs, pc, issued>>
                             ELSE /\ Abort(r.exc)
                                  /\ UNCHANGED <<locale, other_libs, file, issued, deleted>>

\* books_list taking the records out of books as it prints them
BooksList_clear ==
    /\ pc = "menu"
    /\ lib_data' = [lib_data EXCEPT !.books = <<>>]
    /\ out' = "listed"
    /\ UNCHANGED <<locale, other_libs, file, pc, issued, deleted>>

\* books_list(lib), choice 3
BooksList ==
    /\ pc = "menu"
    /\ LET books == GetAllBooks(lib_data)
       IN  Back("listed")

\* search(lib), choice 4, with one turn of its loop: further turns repeat the
\* lookup on the same lib_data
Search(criteriaLine, valueLine) ==
    /\ pc = "menu"
    /\ LET dec == CheckInput(4, criteriaLine)
           value == Strip(valueLine)
           books == IF dec = 1 THEN SearchByAuthorOrYear(lib_data, value, "author")
                    ELSE IF dec = 3 THEN SearchByAuthorOrYear(lib_data, value, "year")
                    ELSE SearchByTitle(lib_data, value)
       IN  IF dec \in {1, 2, 3}
           THEN Back("listed")
           ELSE /\ valueLine = NoLine
                /\ Back(IF dec = 4 THEN "cancelled" ELSE "rejected")

\* change_status(lib), choice 5
ChangeStatus(idLine, optionLine) ==
    /\ pc = "menu"
    /\ LET id == IntParse(idLine)
           found == SearchById(lib_data, Str(id.val))
       IN  IF ~id.ok THEN optionLine = NoLine /\ Back("rejected")
           ELSE IF found = None THEN optionLine = NoLine /\ Back("not found")
           ELSE LET book == Book(found.title, found.author, found.year, id.val, found.status)
                    choice == IntParse(optionLine)
                IN  IF ~choice.ok
                    THEN /\ Abort("ValueError")
                         /\ UNCHANGED <<locale, other_libs, file, issued, deleted>>
                    ELSE IF choice.val \in {1, 2}
                    THEN LET new_status == IF choice.val = 1 THEN Available ELSE CheckedOut
                             d == ChangeBookStatus(lib_data, book, new_status)
                         IN  /\ lib_data' = d
                             /\ file' = SaveData(d)
                             /\ out' = "changed"
                             /\ UNCHANGED <<locale, other_libs, pc, issued, deleted>>
                    ELSE Back("rejected")

(* ------------------------- storage failures ---------------------------- *)

\* save_data raising OSError: open(..., "w+") is refused and the file is as it
\* was, or the file was truncated and holds nothing or the start of the text
FailureKinds == {"refused", "truncated", "partial"}

\* the file content save_data leaves when it fails in that way
SaveDataFailed(f, how) ==
    IF how = "refused" THEN f ELSE IF how = "truncated" THEN EmptyFile ELSE Garbage

\* add(lib) when save_data raises: add_book has changed lib_data, nothing
\* catches the exception
AddFailed(titleLine, authorLine, yearLine, how) ==
    /\ pc = "menu"
    /\ LET title == Strip(titleLine)
           author == Strip(authorLine)
           year == Strip(yearLine)
           int_year == IntParse(year)
       IN  /\ title # <<>> /\ author # <<>>
           /\ int_year.ok /\ int_year.val >= 868 /\ int_year.val <= CurrentYear
           /\ Len(issued) < MaxBooks
           /\ AddBook(lib_data, title, author, year).ok
    /\ file' = SaveDataFailed(file, how)
    /\ Abort("OSError")
    /\ UNCHANGED <<locale, other_libs, issued, deleted>>

\* delete(lib) when save_data raises
DeleteFailed(idLine, how) ==
    /\ pc = "menu"
    /\ LET id == IntParse(Strip(idLine))
           found == SearchById(lib_data, Str(id.val))
       IN  /\ id.ok
           /\ found # None
           /\ DeleteBook(lib_data, Book(found.title, found.author, found.year,
                                        id.val, found.status)).ok
    /\ file' = SaveDataFailed(file, how)
    /\ Abort("OSError")
    /\ UNCHANGED <<locale, other_libs, issued, deleted>>

\* change_status(lib) when save_data raises
ChangeStatusFailed(idLine, optionLine, how) ==
    /\ pc = "menu"
    /\ IntParse(idLine).ok
    /\ SearchById(lib_data, Str(IntParse(idLine).val)) # None
    /\ IntParse(optionLine).ok
    /\ IntParse(optionLine).val \in {1, 2}
    /\ file' = SaveDataFailed(file, how)
    /\ Abort("OSError")
    /\ UNCHANGED <<locale, other_libs, issued, deleted>>

(* ---------------------------- specifications ---------------------------- *)

MainStep ==
    \E answer \in OptionInputs, newLib \in {NoLine, Str(1), Str(2)},
       name \in NameInputs \cup {NoLine} : Main(answer, newLib, name)

Next ==
    \/ MainStep
    \/ \E line \in MenuInputs : MenuOther(line)
    \/ \E b \in BookInputs \cup BadBookInputs : Add(b[1], b[2], b[3])
    \/ \E i \in IdInputs, o \in OptionInputs \cup {NoLine} : Delete(i, o)
    \/ BooksList
    \/ \E c \in OptionInputs \cup {Str(4)}, v \in SearchInputs \cup {NoLine} : Search(c, v)
    \/ \E i \in IdInputs, o \in OptionInputs \cup {NoLine} : ChangeStatus(i, o)

\* every run of the program, one process after the other on the same file
Spec == Init /\ [][Next]_vars

\* the lines of add in one process: those of BookInputs and a Greek title
SessionBookInputs == BookInputs \cup {<<LineAS, LineH, Line868>>}

\* one process: a new library is created and worked on until the app is left
SessionNext ==
    \/ file = NoFile /\ MainStep
    \/ \E line \in MenuInputs : MenuOther(line)
    \/ \E b \in SessionBookInputs \cup BadBookInputs : Add(b[1], b[2], b[3])
    \/ \E i \in IdInputs, o \in OptionInputs \cup {NoLine} : Delete(i, o)
    \/ BooksList
    \/ \E c \in OptionInputs \cup {Str(4)}, v \in SearchInputs \cup {NoLine} : Search(c, v)
    \/ \E i \in IdInputs, o \in OptionInputs \cup {NoLine} : ChangeStatus(i, o)

SessionSpec == Init /\ [][SessionNext]_vars

\* the files a user may have put under the library's name before the first run
ForeignFiles == {EmptyFile, Garbage, NoCounter}

EnvInit ==
    /\ locale \in Encodings
    /\ other_libs = {}
    /\ file \in {NoFile} \cup ForeignFiles
    /\ lib_data = NoLib
    /\ pc = "off"
    /\ out = ""
    /\ issued = <<>>
    /\ deleted = {}

\* the lines of add in the runs with the environment
EnvBookInputs == {<<LineD, LineH, Line868>>}

EnvNext ==
    \/ MainStep
    \/ \E answer \in OptionInputs, newLib \in {NoLine, Str(1), Str(2)},
          name \in NameInputs \cup {NoLine} : MainOther(answer, newLib, name)
    \/ Elsewhere
    \/ \E line \in MenuInputs : MenuOther(line)
    \/ \E b \in EnvBookInputs \cup BadBookInputs : Add(b[1], b[2], b[3])
    \/ \E i \in IdInputs, o \in OptionInputs \cup {NoLine} : Delete(i, o)
    \/ BooksList
    \/ \E c \in OptionInputs \cup {Str(4)}, v \in SearchInputs \cup {NoLine} : Search(c, v)
    \/ \E i \in IdInputs, o \in OptionInputs \cup {NoLine} : ChangeStatus(i, o)
    \/ \E b \in EnvBookInputs, how \in FailureKinds : AddFailed(b[1], b[2], b[3], how)
    \/ \E i \in IdInputs, how \in FailureKinds : DeleteFailed(i, how)
    \/ \E i \in IdInputs, o \in OptionInputs, how \in FailureKinds :
          ChangeStatusFailed(i, o, how)

\* every run of the program in a directory where other files may lie, other
\* libraries may be opened and a write to the disk may fail
EnvSpec == EnvInit /\ [][EnvNext]_vars

TypeOK ==
    /\ locale \in Encodings
    /\ pc \in {"off", "menu", "elsewhere"}
    /\ (pc = "menu") = (lib_data # NoLib)
    /\ other_libs \subseteq NameInputs

(* ------------------------------- claims --------------------------------- *)

\* the ids of the records in books (the keys are str(id))
BookIds(d) == {IntParse(k).val : k \in DictKeys(d.books)}

\* the ids listed anywhere in an index
IndexIds(index) == UNION {{index[i][2][j] : j \in 1..Len(index[i][2])} : i \in 1..Len(index)}

Count(l, x) == Cardinality({j \in 1..Len(l) : l[j] = x})

\* C1: the id returned by each add is greater than every id returned before,
\* over all processes that work on the file one after the other, and
\* current_id is never below an id present in books.
C1_IdsNeverReused ==
    /\ [][Len(issued') > Len(issued) =>
            \A j \in 1..Len(issued) : issued'[Len(issued')] > issued[j]]_vars
    /\ [](pc = "menu" => \A i \in BookIds(lib_data) : i <= lib_data.current_id)

\* an id was issued after the record holding an earlier id had been deleted
C1_Witness ==
    /\ pc = "menu" /\ out = "added"
    /\ issued = <<1, 2>> /\ 1 \in deleted
    /\ BookIds(lib_data) = {2} /\ lib_data.current_id = 2

\* the indexes and books agree in both directions
IndexAgree(d) ==
    /\ \A i \in IndexIds(d.years) \cup IndexIds(d.authors) : Str(i) \in DictKeys(d.books)
    /\ \A k \in 1..Len(d.books) :
          LET id == IntParse(d.books[k][1]).val
              rec == d.books[k][2]
          IN  /\ \A i \in 1..Len(d.years) :
                    Count(d.years[i][2], id) = IF d.years[i][1] = rec.year THEN 1 ELSE 0
              /\ \A i \in 1..Len(d.authors) :
                    Count(d.authors[i][2], id) = IF d.authors[i][1] = rec.author THEN 1 ELSE 0
              /\ DictHas(d.years, rec.year) /\ DictHas(d.authors, rec.author)

\* C2: in one process started on a new library, every id in years or authors
\* is a key of books, and every record's id is exactly once in the list of its
\* own year and of its own author and in no other list.
C2_IndexAgree == pc = "menu" => IndexAgree(lib_data)

\* two records share a list of each index
C2_Witness ==
    /\ pc = "menu"
    /\ Len(lib_data.books) = 2
    /\ \E i \in 1..Len(lib_data.authors) : Len(lib_data.authors[i][2]) = 2
    /\ \E i \in 1..Len(lib_data.years) : Len(lib_data.years[i][2]) = 2

\* C3: in one process started on a new library, no key of years or authors
\* maps to an empty list.
C3_NoEmptyList ==
    pc = "menu" =>
        /\ \A i \in 1..Len(lib_data.years) : lib_data.years[i][2] # <<>>
        /\ \A i \in 1..Len(lib_data.authors) : lib_data.authors[i][2] # <<>>

\* a delete has emptied the last lists and both indexes have no key left
C3_Witness ==
    /\ pc = "menu" /\ out = "deleted"
    /\ lib_data.current_id > 0
    /\ lib_data.books = <<>> /\ lib_data.years = <<>> /\ lib_data.authors = <<>>

\* C4: while a process is at its menu, the file holds the catalog in memory:
\* opening the file again gives the lib_data the process has.
C4_RoundTrip ==
    pc = "menu" =>
        LET r == LibraryInit(file, locale)
        IN  r.ok /\ r.data = lib_data

\* the record add_book stores for the three lines typed
Typed(b) == [title |-> Strip(b[1]), author |-> Strip(b[2]), year |-> Strip(b[3]),
             status |-> Available]

\* C5: right after an add that returned the id i, search_by_id(i) gives the
\* title, author and year that were passed with status Available, the
\* searches by that author and by that year contain i, and current_id is i.
C5_AddPost ==
    [][out' = "added" => \A b \in BookInputs :
          Add(b[1], b[2], b[3]) =>
              LET i == issued'[Len(issued')]
              IN  /\ SearchById(lib_data', Str(i)) = Typed(b)
                  /\ DictHas(SearchByAuthorOrYear(lib_data', Typed(b).author, "author"), i)
                  /\ DictHas(SearchByAuthorOrYear(lib_data', Typed(b).year, "year"), i)
                  /\ lib_data'.current_id = i]_vars

\* a second book has just been added to a catalog that holds another one
C5_Witness ==
    /\ pc = "menu" /\ out = "added"
    /\ Len(lib_data.books) = 2 /\ lib_data.current_id = 2

C7_ToggleRoundTrip ==
    [][out' = "changed" => \A line \in IdInputs :
          (/\ ChangeStatus(line, Str(2))
           /\ DictGet(lib_data.books, Str(IntParse(line).val)).status = Available)
          => LET id == IntParse(line).val
                 found == SearchById(lib_data', Str(id))
                 book == Book(found.title, found.author, found.year, id, found.status)
                 back == ChangeBookStatus(lib_data', book, Available)
             IN  /\ found.status = CheckedOut
                 /\ back = lib_data
                 /\ SaveData(back) = file]_vars

\* the two values a status may have
Statuses == {Available, CheckedOut}

\* C8: a record is created Available, its status is always Available or the
\* checked-out value, the status changes by change_status only, and the id of
\* a deleted record is never again in books or in an index.
C8_RecordLifecycle ==
    /\ [](pc = "menu" =>
            /\ \A k \in 1..Len(lib_data.books) : lib_data.books[k][2].status \in Statuses
            /\ \A id \in deleted :
                  /\ id \notin BookIds(lib_data)
                  /\ id \notin IndexIds(lib_data.years) \cup IndexIds(lib_data.authors))
    /\ [][(pc = "menu" /\ pc' = "menu") =>
            /\ \A k \in DictKeys(lib_data'.books) \ DictKeys(lib_data.books) :
                  DictGet(lib_data'.books, k).status = Available
            /\ (\E k \in DictKeys(lib_data'.books) \cap DictKeys(lib_data.books) :
                   DictGet(lib_data'.books, k).status # DictGet(lib_data.books, k).status)
               => out' = "changed"]_vars

\* the outcome of a handler that found no record
NotFoundPost ==
    /\ out' = "not found"
    /\ pc' = "menu"
    /\ lib_data' = lib_data
    /\ file' = file

\* C9: a delete or a change of status that names an id with no record prints
\* "not found", the process stays at its menu, and lib_data and the file are
\* as before.
C9_NotFound ==
    [][pc = "menu" => \A line \in IdInputs :
          (/\ IntParse(line).ok
           /\ Str(IntParse(line).val) \notin DictKeys(lib_data.books)
           /\ Delete(line, NoLine) \/ ChangeStatus(line, NoLine))
          => NotFoundPost]_vars

\* the id of a deleted record was asked for in a catalog that holds a record
C9_Witness ==
    /\ pc = "menu" /\ out = "not found"
    /\ deleted # {} /\ lib_data.books # <<>>

\* the lines of an add that the claim calls invalid
BadBook(b) ==
    \/ Strip(b[1]) = <<>>
    \/ Strip(b[2]) = <<>>
    \/ ~IntParse(b[3]).ok
    \/ IntParse(b[3]).val < 868
    \/ IntParse(b[3]).val > CurrentYear

\* C10: an add with an empty title or author or with a year that is no number
\* or outside 868..current year is refused and changes nothing; so every
\* record in memory and in the file has a title and an author that are not
\* empty and a year in that range.
C10_Validation ==
    /\ [][pc = "menu" => \A b \in BadBookInputs :
             (BadBook(b) /\ Add(b[1], b[2], b[3]))
             => /\ out' = "rejected"
                /\ UNCHANGED <<lib_data, file, pc, issued>>]_vars
    /\ [](pc = "menu" =>
            \A k \in 1..Len(lib_data.books) :
               LET rec == lib_data.books[k][2]
               IN  /\ rec.title # <<>> /\ rec.author # <<>>
                   /\ IntParse(rec.year).ok
                   /\ IntParse(rec.year).val \in 868..CurrentYear)
    /\ [](file # NoFile =>
            \A k \in 1..Len(file.books) :
               file.books[k][2].title # <<>> /\ file.books[k][2].author # <<>>)

\* C11: a line that is no number, typed where a number is asked for (the two
\* menus, the id and the confirmation of delete, the criteria of search, the
\* id and the option of change_status), never ends the process with an
\* exception and never changes lib_data or the file.
C11_NoCrash ==
    /\ [][pc = "menu" => \A i \in IdInputs :
             (\/ MenuOther(LineX)
              \/ Delete(LineX, NoLine)
              \/ Delete(i, LineX)
              \/ Search(LineX, NoLine)
              \/ ChangeStatus(LineX, NoLine)
              \/ ChangeStatus(i, LineX))
             => /\ pc' = "menu"
                /\ lib_data' = lib_data
                /\ file' = file]_vars
    /\ [][(pc = "off" /\ Main(LineX, NoLine, NoLine))
             => /\ out' = "closed"
                /\ file' = file]_vars

\* the file holds a JSON object with the four keys of a catalog
WellFormed(f) == {"current_id", "books", "years", "authors"} \subseteq DOMAIN f

\* C12: opening a file that is there, is not empty and does not hold the
\* structure of a catalog fails in Library.__init__: no session starts on it,
\* and so no operation of a session fails for a key the catalog lacks.
C12_OpenRejects ==
    /\ [][(pc = "off" /\ file \notin {NoFile, EmptyFile} /\ ~WellFormed(file))
             => pc' # "menu"]_vars
    /\ [][pc = "menu" => out' # "KeyError"]_vars

\* C13: when save_data fails in add, delete or change_status, the process
\* either ends there or goes on with a lib_data that is what the file holds,
\* and the file is still the one the last save_data that returned had written.
C13_PersistFailure ==
    [][out' = "OSError"
         => /\ pc' = "off" \/ (pc' = "menu" /\ SaveData(lib_data') = file')
            /\ file' = file]_vars

\* C14: opening a library whose file is missing or empty gives the empty
\* catalog and writes it to the file; opening a file that holds a catalog
\* succeeds, gives the catalog that the file's UTF-8 text says, and leaves
\* the file as it is.
C14_Open ==
    /\ [][(pc = "off" /\ pc' = "menu")
             => IF file \in {NoFile, EmptyFile}
                THEN lib_data' = StartData /\ file' = Dump(StartData)
                ELSE WellFormed(file)
                        => file' = file /\ lib_data' = Load(file, "utf-8")]_vars
    /\ [][(pc = "off" /\ file \notin {NoFile, EmptyFile} /\ WellFormed(file))
             => out' # "UnicodeDecodeError"]_vars

\* the <<id, record>> pairs a scan of books selects by a field
Scan(d, field, value) ==
    {<<IntParse(d.books[k][1]).val, d.books[k][2]>> :
        k \in {n \in 1..Len(d.books) : d.books[n][2][field] = value}}

\* the values a search is tried with: what is typed and what the catalog holds
SearchValues(d) ==
    SearchInputs \cup DictKeys(d.years) \cup DictKeys(d.authors)
        \cup {d.books[k][2].author : k \in 1..Len(d.books)}
        \cup {d.books[k][2].year : k \in 1..Len(d.books)}

\* C15: for every value, search_by_author_or_year gives by "author" exactly
\* the records of books whose author is the value, and by "year" exactly
\* those whose year is the value, each with the fields books has for it.
C15_IndexSearch ==
    pc = "menu" =>
        /\ IndexIds(lib_data.years) \cup IndexIds(lib_data.authors) \subseteq BookIds(lib_data)
        /\ \A v \in SearchValues(lib_data) :
              LET by_author == SearchByAuthorOrYear(lib_data, v, "author")
                  by_year == SearchByAuthorOrYear(lib_data, v, "year")
              IN  /\ {by_author[i] : i \in 1..Len(by_author)} = Scan(lib_data, "author", v)
                  /\ {by_year[i] : i \in 1..Len(by_year)} = Scan(lib_data, "year", v)

\* the case folding of one character: its lower case, the final sigma being
\* a lower case of the capital sigma like the other one
FoldChar(c) == IF c = 962 THEN 963 ELSE LowerChar(c)

\* two texts that differ in letter case at most
CaseEq(a, b) == Len(a) = Len(b) /\ \A i \in 1..Len(a) : FoldChar(a[i]) = FoldChar(b[i])

\* titles asked for: "d", "D", "D " and "dd", and the Greek title in capitals,
\* in small letters, and in small letters with the final sigma
TitleQueries ==
    {<<100>>, <<68>>, <<68, 32>>, <<100, 100>>, LineAS, <<945, 963>>, <<945, 962>>}

\* C16: search_by_title(t) gives exactly the records whose title is t up to
\* letter case: a title in another case is found, a title that differs in
\* any other way (a space after it, say) is not.
C16_TitleSearch ==
    pc = "menu" =>
        \A t \in TitleQueries :
            LET found == SearchByTitle(lib_data, t)
            IN  {found[i] : i \in 1..Len(found)}
                  = {lib_data.books[k] : k \in {n \in 1..Len(lib_data.books) :
                                                   CaseEq(lib_data.books[n][2].title, t)}}

\* an index after a delete of id: the other ids are in the lists they were in,
\* in the order they had, and no key is new
IndexKept(old, new, id) ==
    /\ DictKeys(new) \subseteq DictKeys(old)
    /\ \A i \in 1..Len(old) :
          SelectSeq(old[i][2], LAMBDA x : x # id)
             = IF DictHas(new, old[i][1]) THEN DictGet(new, old[i][1]) ELSE <<>>

\* C17: a delete that completed leaves current_id, every other record and the
\* place of every other id in years and authors as they were; a change of
\* status changes the status of its record and nothing else in lib_data.
C17_Frame ==
    /\ [][out' = "deleted" => \A line \in IdInputs :
             Delete(line, Str(1)) =>
                 LET id == IntParse(line).val
                 IN  /\ lib_data'.current_id = lib_data.current_id
                     /\ DictKeys(lib_data'.books) = DictKeys(lib_data.books) \ {Str(id)}
                     /\ \A k \in DictKeys(lib_data'.books) :
                           DictGet(lib_data'.books, k) = DictGet(lib_data.books, k)
                     /\ IndexKept(lib_data.years, lib_data'.years, id)
                     /\ IndexKept(lib_data.authors, lib_data'.authors, id)]_vars
    /\ [][out' = "changed" => \A line \in IdInputs, o \in {Str(1), Str(2)} :
             ChangeStatus(line, o) =>
                 LET k == Str(IntParse(line).val)
                 IN  lib_data' = [lib_data EXCEPT !.books =
                                     DictSet(lib_data.books, k,
                                         [DictGet(lib_data.books, k) EXCEPT
                                             !.status = DictGet(lib_data'.books, k).status])]]_vars

\* record 1 was deleted and record 2 is left, in the list of its year
C17_Witness ==
    /\ pc = "menu" /\ out = "deleted"
    /\ deleted = {1}
    /\ DictKeys(lib_data.books) = {Str(2)}
    /\ \E i \in 1..Len(lib_data.years) : lib_data.years[i][2] = <<2>>
    /\ lib_data.current_id = 2

\* the ids of the list grow from left to right
Increasing(l) == \A i \in 1..Len(l), j \in 1..Len(l) : i < j => l[i] < l[j]

C19_QueriesReadOnly ==
    /\ [][(pc = "menu" /\ out' = "listed")
             => \A c \in {Str(1), Str(2), Str(3)}, v \in SearchInputs \cup {NoLine} :
                   (BooksList \/ Search(c, v))
                   => lib_data' = lib_data /\ file' = file]_vars
    /\ [][(pc = "menu" /\ pc' = "menu" /\ (file' # file \/ lib_data' # lib_data))
             => out' \in {"added", "deleted", "changed"}]_vars

\* the books of a catalog that holds two were listed or searched
C19_Witness ==
    /\ pc = "menu" /\ out = "listed"
    /\ Len(lib_data.books) = 2

\* the answers at the top-level menu that open no library: leave, no valid
\* choice, or an existing library asked for by a name that is not listed
MainLeaves(answer, name) ==
    LET lib_decision == CheckInput(0, answer)
    IN  \/ lib_decision \notin {1, 2}
        \/ /\ lib_decision = 1
           /\ GetLibraries(file) # {}
           /\ Strip(name) \notin GetLibraries(file)

\* C20: a .json file comes into being only in a run of main that took the
\* path of a new library and read a name that is not empty; a run that
\* leaves, has no valid choice or names an existing library that is not
\* listed ends with no file made or changed.
C20_CreateOnly ==
    /\ [][GetLibraries(file') # GetLibraries(file)
             => \E answer \in OptionInputs, newLib \in {NoLine, Str(1), Str(2)},
                   name \in NameInputs :
                   /\ MainCreates(answer, newLib)
                   /\ Strip(name) # <<>>
                   /\ Main(answer, newLib, name) \/ MainOther(answer, newLib, name)]_vars
    /\ [][pc = "off"
             => \A answer \in OptionInputs, newLib \in {NoLine, Str(1), Str(2)},
                   name \in NameInputs \cup {NoLine} :
                   (/\ MainLeaves(answer, name)
                    /\ Main(answer, newLib, name) \/ MainOther(answer, newLib, name))
                   => /\ pc' = "off"
                      /\ out' = "closed"
                      /\ file' = file
                      /\ other_libs' = other_libs]_vars

\* another library was made on the path of a new one, and the runs so far
\* ended without a file for the library LibName
C20_Witness ==
    /\ pc = "off" /\ out = "closed"
    /\ other_libs = {OtherName}
    /\ file = NoFile

====
